---- MODULE Spec2Model ----
(***************************************************************************)
(* Model of the document workflow engine of doc-agent:                     *)
(*   src/src/database.py       the documents table (Database)              *)
(*   src/src/ocr_service.py    text extraction (OCRService)                *)
(*   src/src/agent_planner.py  the two planners, the three generative      *)
(*                             capabilities and run_agentic_workflow       *)
(*   src/src/main.py           process_document, the upload entry point    *)
(*                                                                         *)
(* Strings that the code inspects character by character (the oracle's     *)
(* response) are sequences of one-character strings, so that strip(),      *)
(* lower() and the `in` containment test are computed, not assumed.        *)
(*                                                                         *)
(* Specifications:                                                         *)
(*   Spec, FairSpec  uploads, inserts and runs of the workflow, one run    *)
(*                   at a time, an iteration a step                        *)
(*   PlannerSpec     one call of a planner on any row                      *)
(*   ResumeSpec      the workflow run again and again on one document      *)
(*   StoreSpec       the store's methods called directly, with the audit   *)
(*                   table                                                 *)
(*   ConcSpec        two runs on two documents, interleaved                *)
(*   RaceSpec        two runs on one document, interleaved                 *)
(*   BudgetSpec      one run under the rule order, every capability        *)
(*                   succeeding, after any earlier iterations              *)
(*                                                                         *)
(* The audit table is written by every store method and read by none. The  *)
(* workflow keeps, per iteration, the rows the iteration appended          *)
(* (last.audit); the table as a whole is kept where the store is called    *)
(* directly (store.audit).                                                 *)
(***************************************************************************)
EXTENDS Integers, Sequences, FiniteSets, TLC

VARIABLES
    docs,       \* the documents table: docs[id] is the row with that id
    files,      \* data/uploads: files[name] is the content kind, or Absent
    run,        \* the run of run_agentic_workflow: pc, doc_id, step, ...
    last,       \* what the last executed iteration did
    plan,       \* the last direct call of a planner and what it returned
    store,      \* direct calls of the store: the audit table and the call
    execs       \* executors that run concurrently, one record each

vars == <<docs, files, run, last, plan, store, execs>>

---------------------------------------------------------------------------
(* Bounds of the model *)

\* at most this many rows are ever inserted
MaxDocs == 1
\* an oracle response is a concatenation of at most this many fragments
MaxWords == 2
\* run_agentic_workflow is called with max_steps in 0..MaxBudget;
\* process_document calls it with its default
MaxBudget == 2

\* direct calls of the store are followed while the audit table holds
\* fewer rows than this
MaxAudit == 4

\* max_steps=10, the default of run_agentic_workflow
DefaultMaxSteps == 10

---------------------------------------------------------------------------
(* Python values *)

\* Python's None / SQL NULL
None == "<None>"

\* bool(v) for v a TEXT column: None and "" are falsy
Truthy(v) == v \notin {None, ""}

---------------------------------------------------------------------------
(* Strings as character sequences *)

Chars(w) ==
    CASE w = "extract_text" ->
            <<"e","x","t","r","a","c","t","_","t","e","x","t">>
      [] w = "summarize" -> <<"s","u","m","m","a","r","i","z","e">>
      [] w = "tts" -> <<"t","t","s">>
      [] w = "generate_image" ->
            <<"g","e","n","e","r","a","t","e","_","i","m","a","g","e">>
      [] w = "complete" -> <<"c","o","m","p","l","e","t","e">>
      [] w = "summar" -> <<"s","u","m","m","a","r">>
      [] w = "text" -> <<"t","e","x","t">>
      [] w = "extract" -> <<"e","x","t","r","a","c","t">>
      [] w = "speech" -> <<"s","p","e","e","c","h">>
      [] w = "audio" -> <<"a","u","d","i","o">>
      [] w = "image" -> <<"i","m","a","g","e">>
      [] w = "done" -> <<"d","o","n","e">>
      [] w = "finish" -> <<"f","i","n","i","s","h">>
      [] w = "extracted text" ->
            <<"e","x","t","r","a","c","t","e","d"," ","t","e","x","t">>
      [] w = "summary" -> <<"s","u","m","m","a","r","y">>
      [] w = "xyzzy" -> <<"x","y","z","z","y">>
      [] w = "FINISH" -> <<"F","I","N","I","S","H">>
      [] w = "" -> <<>>
      [] w = " " -> <<" ">>
      [] w = "nl" -> <<"\n">>
      [] w = "I think you should " ->
            <<"I"," ","t","h","i","n","k"," ","y","o","u"," ",
              "s","h","o","u","l","d"," ">>
      [] w = " this now" -> <<" ","t","h","i","s"," ","n","o","w">>

\* the words responses are built from: the five action names, the
\* keywords of the heuristics alone and together, an upper-case one and
\* one that matches nothing
Words ==
    {"extract_text", "summarize", "tts", "generate_image", "complete",
     "text", "extract", "speech", "audio", "image", "done", "FINISH",
     "extracted text", "summary", "xyzzy"}

\* what the oracle puts around them: nothing, whitespace, a sentence
Wrappings ==
    {<<"", "">>, <<" ", "nl">>, <<"I think you should ", " this now">>}

RECURSIVE Concat(_)
Concat(ws) == IF ws = <<>> THEN <<>> ELSE Chars(Head(ws)) \o Concat(Tail(ws))

\* message.content of the oracle's reply
Responses ==
    {Chars(w[1]) \o Concat(ws) \o Chars(w[2]) :
        w \in Wrappings,
        ws \in UNION {[1..n -> Words] : n \in 0..MaxWords}}

\* str.lower() on one character
LowerChar(c) ==
    CASE c = "F" -> "f" [] c = "I" -> "i" [] c = "N" -> "n"
      [] c = "S" -> "s" [] c = "H" -> "h" [] OTHER -> c

\* str.lower()
Lower(s) == [i \in 1..Len(s) |-> LowerChar(s[i])]

IsSpace(c) == c \in {" ", "\n", "\t"}

\* str.strip(): drop the leading and the trailing whitespace
RECURSIVE LStrip(_)
LStrip(s) == IF s # <<>> /\ IsSpace(Head(s)) THEN LStrip(Tail(s)) ELSE s

RECURSIVE RStrip(_)
RStrip(s) ==
    IF s # <<>> /\ IsSpace(s[Len(s)]) THEN RStrip(SubSeq(s, 1, Len(s) - 1))
    ELSE s

Strip(s) == RStrip(LStrip(s))

\* Python's `needle in hay` on strings
Contains(needle, hay) ==
    \E i \in 1..(Len(hay) - Len(needle) + 1) :
        SubSeq(hay, i, i + Len(needle) - 1) = needle

In(w, s) == Contains(Chars(w), s)

---------------------------------------------------------------------------
(* The documents table (database.py) *)

Filenames == {"a.pdf"}

\* values of the TEXT columns the workflow fills
ExtractedTexts == {"", "hello"}
Summaries == {"", "s1"}
AudioPath == "output/audio/doc.mp3"
ImagePath == "output/images/doc.png"

Statuses ==
    {"uploaded", "text_extracted", "summarized", "tts_done",
     "image_generated", "complete"}

\* the row INSERT INTO documents (filename, extracted_text) creates, with
\* the column defaults of CREATE TABLE
NewRow(id, filename, extracted_text) ==
    [id |-> id, filename |-> filename, uploaded_at |-> "CURRENT_TIMESTAMP",
     status |-> "uploaded", extracted_text |-> extracted_text,
     summary |-> None, metadata_json |-> None, tts_path |-> None,
     image_path |-> None, version |-> 1]

\* what get_document returns for an id with no row (None in the code)
NoDoc == [id |-> 0]

Found(doc) == doc.id # 0

\* AUTOINCREMENT ids are 1, 2, ...: the table is the sequence of its rows
get_document(D, document_id) ==
    IF document_id \in 1..Len(D) THEN D[document_id] ELSE NoDoc

insert_document(D, filename, extracted_text) ==
    Append(D, NewRow(Len(D) + 1, filename, extracted_text))

\* UPDATE documents SET <column> = ? WHERE id = ?
update_extracted_text(D, document_id, extracted_text) ==
    IF document_id \in 1..Len(D)
    THEN [D EXCEPT ![document_id].extracted_text = extracted_text]
    ELSE D

\* update_summary that leaves a summary already stored
update_summary_IfEmpty(D, document_id, summary) ==
    IF document_id \in 1..Len(D) /\ ~Truthy(D[document_id].summary)
    THEN [D EXCEPT ![document_id].summary = summary]
    ELSE D

update_summary(D, document_id, summary) ==
    IF document_id \in 1..Len(D)
    THEN [D EXCEPT ![document_id].summary = summary]
    ELSE D

update_tts_path(D, doc_id, tts_path) ==
    IF doc_id \in 1..Len(D)
    THEN [D EXCEPT ![doc_id].tts_path = tts_path]
    ELSE D

update_image_path(D, doc_id, image_path) ==
    IF doc_id \in 1..Len(D)
    THEN [D EXCEPT ![doc_id].image_path = image_path]
    ELSE D

\* update_status with no WHERE clause
update_status_EveryRow(D, doc_id, status) ==
    IF doc_id \in 1..Len(D)
    THEN [i \in 1..Len(D) |-> [D[i] EXCEPT !.status = status]]
    ELSE D

\* update_status that also counts the write in the version column
update_status_BumpVersion(D, doc_id, status) ==
    IF doc_id \in 1..Len(D)
    THEN [D EXCEPT ![doc_id].status = status,
                   ![doc_id].version = D[doc_id].version + 1]
    ELSE D

update_status(D, doc_id, status) ==
    IF doc_id \in 1..Len(D)
    THEN [D EXCEPT ![doc_id].status = status]
    ELSE D

---------------------------------------------------------------------------
(* The store with its audit table (database.py) *)

\* INSERT INTO audit (document_id, action, actor, note)
log_audit(A, document_id, action, actor, note) ==
    Append(A, [document_id |-> document_id, action |-> action,
               actor |-> actor, note |-> note])

\* the store as a call finds it: the documents table, and of the audit
\* table, which nothing reads, only the rows appended from here on
Store(D) == [documents |-> D, audit |-> <<>>]

Database_insert_document(S, filename, extracted_text) ==
    LET document_id == Len(S.documents) + 1
    IN  [documents |-> insert_document(S.documents, filename, extracted_text),
         audit |-> log_audit(S.audit, document_id, "insert", "system",
                             <<"Document ", filename, " uploaded">>),
         result |-> document_id]

\* Updated writing the audit row whether or not a row was updated
Updated_AlwaysLogged(S, D2, document_id, note) ==
    [documents |-> D2,
     audit |-> log_audit(S.audit, document_id, "update", "system", note),
     result |-> document_id \in 1..Len(S.documents)]

\* success = cursor.rowcount > 0; if success: self.log_audit(...);
\* return success -- D2 is the table after the UPDATE
Updated(S, D2, document_id, note) ==
    LET success == document_id \in 1..Len(S.documents)
    IN  [documents |-> D2,
         audit |-> IF success
                   THEN log_audit(S.audit, document_id, "update", "system",
                                  note)
                   ELSE S.audit,
         result |-> success]

Database_update_extracted_text(S, document_id, extracted_text) ==
    Updated(S, update_extracted_text(S.documents, document_id, extracted_text),
            document_id, <<"Extracted text updated">>)

Database_update_summary(S, document_id, summary) ==
    Updated(S, update_summary(S.documents, document_id, summary),
            document_id, <<"Summary updated">>)

Database_update_tts_path(S, doc_id, tts_path) ==
    Updated(S, update_tts_path(S.documents, doc_id, tts_path), doc_id,
            <<"TTS path updated: ", tts_path>>)

Database_update_image_path(S, doc_id, image_path) ==
    Updated(S, update_image_path(S.documents, doc_id, image_path), doc_id,
            <<"Image path updated: ", image_path>>)

Database_update_status(S, doc_id, status) ==
    Updated(S, update_status(S.documents, doc_id, status), doc_id,
            <<"Status updated to: ", status>>)

---------------------------------------------------------------------------
(* The planners (agent_planner.py) *)

valid_actions ==
    <<"extract_text", "summarize", "tts", "generate_image", "complete">>

ValidActions == {valid_actions[i] : i \in 1..Len(valid_actions)}

\* the parse of a response that matches no action name and no keyword
Unparsed == "<unparsed>"

\* for action in valid_actions: if action in raw_response: ... break
RECURSIVE FirstContained(_, _)
FirstContained(actions, raw_response) ==
    IF actions = <<>> THEN None
    ELSE IF In(Head(actions), raw_response) THEN Head(actions)
    ELSE FirstContained(Tail(actions), raw_response)

\* the if/elif chain on "common patterns"
KeywordHeuristics(raw_response) ==
    IF In("summar", raw_response) THEN "summarize"
    ELSE IF In("text", raw_response) /\ In("extract", raw_response)
        THEN "extract_text"
    ELSE IF In("tts", raw_response) \/ In("speech", raw_response)
            \/ In("audio", raw_response)
        THEN "tts"
    ELSE IF In("image", raw_response) THEN "generate_image"
    ELSE IF In("complete", raw_response) \/ In("done", raw_response)
            \/ In("finish", raw_response)
        THEN "complete"
    ELSE Unparsed

\* ParseResponse without .lower()
ParseResponse_NoLower(content) ==
    LET raw_response == Strip(content)
        next_action == FirstContained(valid_actions, raw_response)
    IN  IF next_action # None THEN next_action
        ELSE KeywordHeuristics(raw_response)

\* from message.content to next_action, or Unparsed where the code falls
\* back to the rule-based planner
ParseResponse(content) ==
    LET raw_response == Lower(Strip(content))
        next_action == FirstContained(valid_actions, raw_response)
    IN  IF next_action # None THEN next_action
        ELSE KeywordHeuristics(raw_response)

\* plan_next_step_rulebase with the tts check before the summary check
plan_next_step_rulebase_TtsFirst(D, doc_id) ==
    LET doc == get_document(D, doc_id)
    IN  IF ~Found(doc) THEN None
        ELSE IF ~Truthy(doc.extracted_text) THEN "extract_text"
        ELSE IF ~Truthy(doc.tts_path) THEN "tts"
        ELSE IF ~Truthy(doc.summary) THEN "summarize"
        ELSE IF ~Truthy(doc.image_path) THEN "generate_image"
        ELSE "complete"

\* plan_next_step_rulebase trusting a status of complete
plan_next_step_rulebase_ByStatus(D, doc_id) ==
    LET doc == get_document(D, doc_id)
    IN  IF ~Found(doc) THEN None
        ELSE IF doc.status = "complete" THEN "complete"
        ELSE IF ~Truthy(doc.extracted_text) THEN "extract_text"
        ELSE IF ~Truthy(doc.summary) THEN "summarize"
        ELSE IF ~Truthy(doc.tts_path) THEN "tts"
        ELSE IF ~Truthy(doc.image_path) THEN "generate_image"
        ELSE "complete"

plan_next_step_rulebase(D, doc_id) ==
    LET doc == get_document(D, doc_id)
    IN  IF ~Found(doc) THEN None
        ELSE IF ~Truthy(doc.extracted_text) THEN "extract_text"
        ELSE IF ~Truthy(doc.summary) THEN "summarize"
        ELSE IF ~Truthy(doc.tts_path) THEN "tts"
        ELSE IF ~Truthy(doc.image_path) THEN "generate_image"
        ELSE "complete"

\* AgenticDecision returning the unparsed reply instead of falling back
AgenticDecision_NoFallback(D, doc_id, p) ==
    IF ~Found(get_document(D, doc_id)) THEN None ELSE p

\* AgenticDecision with a fixed default instead of the rule-based planner
AgenticDecision_DefaultExtract(D, doc_id, p) ==
    IF ~Found(get_document(D, doc_id)) THEN None
    ELSE IF p = Unparsed THEN "extract_text"
    ELSE p

\* plan_next_step_agentic once the oracle's reply has been parsed to p
AgenticDecision(D, doc_id, p) ==
    IF ~Found(get_document(D, doc_id)) THEN None
    ELSE IF p = Unparsed THEN plan_next_step_rulebase(D, doc_id)
    ELSE p

\* content is what the oracle answers when it is asked (the row exists)
plan_next_step_agentic(D, doc_id, content) ==
    AgenticDecision(D, doc_id, ParseResponse(content))

\* the parses the oracle's replies can have
OracleParses == {ParseResponse(content) : content \in Responses}

---------------------------------------------------------------------------
(* Files and text extraction (ocr_service.py) *)

Absent == "absent"

\* what a file under data/uploads holds: a file fitz / PIL cannot open, a
\* file with no recognisable text (or of an unsupported type), a file
\* with text
FileContents == {"corrupt", "blank", "text"}

\* OCRService.extract_text raises (fitz.open, Image.open)
OcrRaises(content) == content = "corrupt"

\* OCRService.extract_text returns text.strip(), or "" for another type
OcrText(content) == IF content = "text" THEN "hello" ELSE ""

---------------------------------------------------------------------------
(* The generative capabilities (agent_planner.py) *)

\* the outcome of an external call that raises
Raise == "<raise>"

\* what client.chat.completions.create can do with the text it is sent:
\* a None content is rejected, a string is answered or fails
SummarizeOutcomes(text) ==
    IF text = None THEN {Raise} ELSE {Raise} \union Summaries

\* what client.audio.speech.create / client.images.generate can do: raise,
\* or return the binary that is written to the output folder
MediaOutcomes == {Raise, "ok"}

\* what a capability did: the store after it, whether it raised, whether
\* it called out
Outcome(S, raised, external) ==
    [db |-> S, raised |-> raised, external |-> external]

summarize_document(D, doc_id, o) ==
    LET doc == get_document(D, doc_id)
    IN  IF ~Found(doc) THEN Outcome(Store(D), TRUE, FALSE)
        ELSE IF o = Raise THEN Outcome(Store(D), TRUE, TRUE)
        ELSE Outcome(Database_update_summary(Store(D), doc_id, o), FALSE,
                     TRUE)

text_to_speech(D, doc_id, o) ==
    LET doc == get_document(D, doc_id)
    IN  IF ~Found(doc) THEN Outcome(Store(D), TRUE, FALSE)
        ELSE IF ~Truthy(doc.summary) THEN Outcome(Store(D), FALSE, FALSE)
        ELSE IF o = Raise THEN Outcome(Store(D), TRUE, TRUE)
        ELSE Outcome(Database_update_tts_path(Store(D), doc_id, AudioPath),
                     FALSE, TRUE)

generate_image_from_doc(D, doc_id, o) ==
    LET doc == get_document(D, doc_id)
    IN  IF ~Found(doc) THEN Outcome(Store(D), TRUE, FALSE)
        ELSE IF ~Truthy(doc.summary) THEN Outcome(Store(D), FALSE, FALSE)
        ELSE IF o = Raise THEN Outcome(Store(D), TRUE, TRUE)
        ELSE Outcome(Database_update_image_path(Store(D), doc_id, ImagePath),
                     FALSE, TRUE)

---------------------------------------------------------------------------
(* run_agentic_workflow (agent_planner.py) *)

StepBudgets == 0..MaxBudget

\* a run as it starts: step = 0, nothing executed, nothing yielded
NewRun(doc_id, max_steps) ==
    [pc |-> "running", doc_id |-> doc_id, step |-> 0,
     max_steps |-> max_steps, iters |-> 0, events |-> 0]

NoRun ==
    [pc |-> "idle", doc_id |-> 0, step |-> 0, max_steps |-> 0,
     iters |-> 0, events |-> 0]

\* what one iteration did: the table it leaves and the audit rows it
\* appended, the action planned, the capability invoked ("none" if none),
\* whether the capability called out, whether it raised, the progress
\* event yielded ("none" if none), whether the exception left the generator
Iter(S, action, capability, external, raised, event, aborted) ==
    [docs |-> S.documents, audit |-> S.audit, action |-> action,
     capability |-> capability, external |-> external, raised |-> raised,
     event |-> event, aborted |-> aborted]

NoIter ==
    [audit |-> <<>>, action |-> "none", capability |-> "none",
     external |-> FALSE, raised |-> FALSE, event |-> "none",
     aborted |-> FALSE]

\* no planner has been called directly
NoPlan == [planner |-> "none"]

\* the store is not called directly
NoStore == [op |-> "none"]

\* no executor runs beside the run
NoExecs == <<>>

\* NextAction trying extract_text when both planners return None
NextAction_ExtractIfNone(D, doc_id, p) ==
    LET next_action == AgenticDecision(D, doc_id, p)
    IN  IF next_action = None \/ next_action \notin ValidActions
        THEN IF plan_next_step_rulebase(D, doc_id) = None
             THEN "extract_text"
             ELSE plan_next_step_rulebase(D, doc_id)
        ELSE next_action

\* next_action as the loop has it after the planner and the fallback
NextAction(D, doc_id, p) ==
    LET next_action == AgenticDecision(D, doc_id, p)
    IN  IF next_action = None \/ next_action \notin ValidActions
        THEN plan_next_step_rulebase(D, doc_id)
        ELSE next_action

\* if next_action == "complete"
CompleteBranch(D, doc_id) ==
    Iter(Database_update_status(Store(D), doc_id, "complete"), "complete",
         "none", FALSE, FALSE, "terminal", FALSE)

\* ExtractBranch passing a missing file over in silence
ExtractBranch_SilentOnMissingFile(D, F, doc_id) ==
    LET doc == get_document(D, doc_id)
    IN  IF ~Found(doc) \/ F[doc.filename] = Absent
        THEN Iter(Store(D), "extract_text", "none", FALSE, FALSE, "none",
                  FALSE)
        ELSE IF OcrRaises(F[doc.filename])
        THEN Iter(Store(D), "extract_text", "extract_text", TRUE, TRUE,
                  "none", TRUE)
        ELSE Iter(Database_update_status(
                      Database_update_extracted_text(
                          Store(D), doc_id, OcrText(F[doc.filename])),
                      doc_id, "text_extracted"),
                  "extract_text", "extract_text", TRUE, FALSE, "success",
                  FALSE)

\* if next_action == "extract_text": no try around the extraction
ExtractBranch(D, F, doc_id) ==
    LET doc == get_document(D, doc_id)
    IN  IF ~Found(doc)
        THEN Iter(Store(D), "extract_text", "none", FALSE, FALSE, "none",
                  FALSE)
        ELSE IF F[doc.filename] = Absent
        THEN Iter(Store(D), "extract_text", "none", FALSE, FALSE, "failure",
                  FALSE)
        ELSE IF OcrRaises(F[doc.filename])
        THEN Iter(Store(D), "extract_text", "extract_text", TRUE, TRUE,
                  "none", TRUE)
        ELSE Iter(Database_update_status(
                      Database_update_extracted_text(
                          Store(D), doc_id, OcrText(F[doc.filename])),
                      doc_id, "text_extracted"),
                  "extract_text", "extract_text", TRUE, FALSE, "success",
                  FALSE)

\* Guarded with update_status after the try statement instead of in it
Guarded_StatusAfterTry(action, status, r, doc_id) ==
    Iter(Database_update_status(r.db, doc_id, status), action, action,
         r.external, r.raised, IF r.raised THEN "failure" ELSE "success",
         FALSE)

\* try: capability; update_status; yield success / except: yield failure
Guarded(action, status, r, doc_id) ==
    IF r.raised
    THEN Iter(r.db, action, action, r.external, TRUE, "failure", FALSE)
    ELSE Iter(Database_update_status(r.db, doc_id, status), action, action,
              r.external, FALSE, "success", FALSE)

SummarizeBranch(D, doc_id, o) ==
    Guarded("summarize", "summarized", summarize_document(D, doc_id, o),
            doc_id)

TtsBranch(D, doc_id, o) ==
    Guarded("tts", "tts_done", text_to_speech(D, doc_id, o), doc_id)

ImageBranch(D, doc_id, o) ==
    Guarded("generate_image", "image_generated",
            generate_image_from_doc(D, doc_id, o), doc_id)

\* the run after an iteration that went through to step += 1, or that an
\* exception ended
\* AfterIteration without step += 1
AfterIteration_NoStep(r, it) ==
    [r EXCEPT !.pc = IF it.aborted THEN "aborted" ELSE @,
              !.iters = @ + 1,
              !.events = IF it.event = "none" THEN @ ELSE @ + 1]

AfterIteration(r, it) ==
    [r EXCEPT !.pc = IF it.aborted THEN "aborted" ELSE @,
              !.step = IF it.aborted THEN @ ELSE @ + 1,
              !.iters = @ + 1,
              !.events = IF it.event = "none" THEN @ ELSE @ + 1]

\* the run after an iteration that ended in break
AfterBreak(r, it) ==
    [r EXCEPT !.pc = "done", !.iters = @ + 1,
              !.events = IF it.event = "none" THEN @ ELSE @ + 1]

\* Looping with <= for <
Looping_OffByOne == run.pc = "running" /\ run.step <= run.max_steps

\* the loop is about to run an iteration
Looping == run.pc = "running" /\ run.step < run.max_steps

\* the record of an iteration, without the table
Done(it) == [f \in DOMAIN it \ {"docs"} |-> it[f]]

---------------------------------------------------------------------------
(* Actions *)

Init ==
    /\ docs = <<>>
    /\ files = [f \in Filenames |-> Absent]
    /\ run = NoRun
    /\ last = NoIter
    /\ plan = NoPlan
    /\ store = NoStore
    /\ execs = NoExecs

\* Database.insert_document called directly: a row with no file behind it
InsertDocument(filename, extracted_text) ==
    /\ run.pc # "running"
    /\ Len(docs) < MaxDocs
    /\ docs' = Database_insert_document(Store(docs), filename,
                                         extracted_text).documents
    /\ UNCHANGED <<files, run, last, plan, store, execs>>

\* process_document: copy the file, extract, insert, set the status and
\* start the workflow with the default budget; an extraction that raises
\* leaves the copied file and no row
Upload(filename, content) ==
    /\ run.pc # "running"
    /\ Len(docs) < MaxDocs
    /\ files' = [files EXCEPT ![filename] = content]
    /\ IF OcrRaises(content)
       THEN UNCHANGED <<docs, run, last>>
       ELSE /\ docs' = Database_update_status(
                           Database_insert_document(Store(docs), filename,
                                                    OcrText(content)),
                           Len(docs) + 1, "text_extracted").documents
            /\ run' = NewRun(Len(docs) + 1, DefaultMaxSteps)
            /\ last' = NoIter
    /\ UNCHANGED <<plan, store, execs>>

\* run_agentic_workflow(doc_id, max_steps) is called
RunWorkflow(doc_id, max_steps) ==
    /\ run.pc # "running"
    /\ run' = NewRun(doc_id, max_steps)
    /\ last' = NoIter
    /\ UNCHANGED <<docs, files, plan, store, execs>>

\* an iteration in which neither planner finds the row: break
IterStop ==
    /\ Looping
    /\ \E p \in OracleParses :
          /\ NextAction(docs, run.doc_id, p) = None
          /\ run' = [run EXCEPT !.pc = "done", !.iters = @ + 1]
          /\ last' = [NoIter EXCEPT !.action = None]
    /\ UNCHANGED <<docs, files, plan, store, execs>>

IterComplete ==
    /\ Looping
    /\ \E p \in OracleParses :
          /\ NextAction(docs, run.doc_id, p) = "complete"
          /\ LET it == CompleteBranch(docs, run.doc_id)
             IN  /\ docs' = it.docs
                 /\ run' = AfterBreak(run, it)
                 /\ last' = Done(it)
    /\ UNCHANGED <<files, plan, store, execs>>

IterExtract ==
    /\ Looping
    /\ \E p \in OracleParses :
          /\ NextAction(docs, run.doc_id, p) = "extract_text"
          /\ LET it == ExtractBranch(docs, files, run.doc_id)
             IN  /\ docs' = it.docs
                 /\ run' = AfterIteration(run, it)
                 /\ last' = Done(it)
    /\ UNCHANGED <<files, plan, store, execs>>

IterSummarize ==
    /\ Looping
    /\ \E p \in OracleParses :
          /\ NextAction(docs, run.doc_id, p) = "summarize"
          /\ \E o \in SummarizeOutcomes(
                         get_document(docs, run.doc_id).extracted_text) :
                LET it == SummarizeBranch(docs, run.doc_id, o)
                IN  /\ docs' = it.docs
                    /\ run' = AfterIteration(run, it)
                    /\ last' = Done(it)
    /\ UNCHANGED <<files, plan, store, execs>>

IterTts ==
    /\ Looping
    /\ \E p \in OracleParses :
          /\ NextAction(docs, run.doc_id, p) = "tts"
          /\ \E o \in MediaOutcomes :
                LET it == TtsBranch(docs, run.doc_id, o)
                IN  /\ docs' = it.docs
                    /\ run' = AfterIteration(run, it)
                    /\ last' = Done(it)
    /\ UNCHANGED <<files, plan, store, execs>>

IterImage ==
    /\ Looping
    /\ \E p \in OracleParses :
          /\ NextAction(docs, run.doc_id, p) = "generate_image"
          /\ \E o \in MediaOutcomes :
                LET it == ImageBranch(docs, run.doc_id, o)
                IN  /\ docs' = it.docs
                    /\ run' = AfterIteration(run, it)
                    /\ last' = Done(it)
    /\ UNCHANGED <<files, plan, store, execs>>

\* while step < max_steps is false: the generator returns
LoopExit ==
    /\ run.pc = "running"
    /\ run.step >= run.max_steps
    /\ run' = [run EXCEPT !.pc = "done"]
    /\ UNCHANGED <<docs, files, last, plan, store, execs>>

Iteration ==
    \/ IterStop
    \/ IterComplete
    \/ IterExtract
    \/ IterSummarize
    \/ IterTts
    \/ IterImage
    \/ LoopExit

Next ==
    \/ \E f \in Filenames, t \in {None} \union ExtractedTexts :
          InsertDocument(f, t)
    \/ \E f \in Filenames, c \in FileContents : Upload(f, c)
    \/ \E d \in 1..(MaxDocs + 1), m \in StepBudgets : RunWorkflow(d, m)
    \/ Iteration

Spec == Init /\ [][Next]_vars

\* the caller consumes the generator to its end (main.py: for _ in ...)
FairSpec == Spec /\ WF_vars(Iteration)

---------------------------------------------------------------------------
(* The planners called on their own *)

\* the rows a table can hold: every combination of the columns the
\* planners and the workflow read or write
Rows ==
    {[NewRow(1, f, t) EXCEPT !.status = st, !.summary = s,
                             !.tts_path = a, !.image_path = i] :
        f \in Filenames, t \in {None} \union ExtractedTexts,
        st \in {"uploaded"}, s \in {None} \union Summaries,
        a \in {None, AudioPath}, i \in {None, ImagePath}}

PlannerInit ==
    /\ docs \in {<<>>} \union {<<row>> : row \in Rows}
    /\ files = [f \in Filenames |-> Absent]
    /\ run = NoRun
    /\ last = NoIter
    /\ plan = NoPlan
    /\ store = NoStore
    /\ execs = NoExecs

\* the replies a call of plan_next_step_agentic can get: the oracle is
\* asked only once the row has been found
OracleReplies(D, doc_id) ==
    IF Found(get_document(D, doc_id)) THEN Responses ELSE {<<>>}

\* plan_next_step_agentic(doc_id), the oracle, if asked, answering content
CallPlanAgentic(doc_id, content) ==
    /\ plan' = [planner |-> "agentic", doc_id |-> doc_id,
                asked |-> Found(get_document(docs, doc_id)),
                content |-> content,
                result |-> plan_next_step_agentic(docs, doc_id, content)]
    /\ UNCHANGED <<docs, files, run, last, store, execs>>

\* plan_next_step_rulebase(doc_id)
CallPlanRulebase(doc_id) ==
    /\ plan' = [planner |-> "rulebase", doc_id |-> doc_id,
                asked |-> FALSE, content |-> <<>>,
                result |-> plan_next_step_rulebase(docs, doc_id)]
    /\ UNCHANGED <<docs, files, run, last, store, execs>>

\* the planners change nothing, so one call per behaviour shows them all;
\* they are asked about the ids of the rows and about the next, absent, id
PlannerNext ==
    \/ /\ plan = NoPlan
       /\ \E d \in 1..(Len(docs) + 1) :
             \E c \in OracleReplies(docs, d) : CallPlanAgentic(d, c)
    \/ /\ plan = NoPlan
       /\ \E d \in 1..(Len(docs) + 1) : CallPlanRulebase(d)

PlannerSpec == PlannerInit /\ [][PlannerNext]_vars

---------------------------------------------------------------------------
(* Properties of the planners, checked under PlannerSpec *)

\* a column that holds nothing: NULL or the empty string
Empty(v) == v = None \/ v = ""

\* the row a direct planner call was about
PlannedDoc == get_document(docs, plan.doc_id)

\* the oracle's reply as the parser sees it
Normalized == Lower(Strip(plan.content))

\* the action names the reply contains, by their place in the list
TokensIn(raw) == {i \in 1..5 : In(valid_actions[i], raw)}

\* which of the five heuristics a reply matches, in the order the spec
\* lists them: summarization, extraction, speech, image, completion
HeuristicsIn(raw) ==
    {j \in 1..5 :
        \/ j = 1 /\ In("summar", raw)
        \/ j = 2 /\ In("text", raw) /\ In("extract", raw)
        \/ j = 3 /\ (In("tts", raw) \/ In("speech", raw) \/ In("audio", raw))
        \/ j = 4 /\ In("image", raw)
        \/ j = 5 /\ (In("complete", raw) \/ In("done", raw)
                        \/ In("finish", raw))}

HeuristicAction ==
    <<"summarize", "extract_text", "tts", "generate_image", "complete">>

Least(S) == CHOOSE i \in S : \A j \in S : i <= j

\* C4 as stated: plan_next_step_agentic returns one of the five actions for
\* every document id and every oracle response.
C4_AlwaysValidAction ==
    plan.planner = "agentic" => plan.result \in ValidActions

\* C4, amended: for the id of an existing document plan_next_step_agentic
\* returns one of the five actions whatever the oracle answers; for an id
\* with no row it returns None.
C4_ValidActionIfFound ==
    plan.planner = "agentic" =>
        IF Found(PlannedDoc) THEN plan.result \in ValidActions
        ELSE plan.result = None

\* an unparseable reply on an existing document still gives an action
C4_Witness ==
    /\ plan.planner = "agentic"
    /\ Found(PlannedDoc)
    /\ TokensIn(Normalized) = {}
    /\ HeuristicsIn(Normalized) = {}
    /\ plan.result = "tts"

\* C5: when the reply contains no action name and matches no heuristic,
\* plan_next_step_agentic returns what plan_next_step_rulebase returns for
\* the same document.
C5_FallbackSafety ==
    plan.planner = "agentic" =>
        LET raw == Normalized
        IN  (TokensIn(raw) = {} /\ HeuristicsIn(raw) = {}) =>
                plan.result = plan_next_step_rulebase(docs, plan.doc_id)

\* Scenario E: "xyzzy" with extracted_text empty gives extract_text
C5_Witness ==
    /\ plan.planner = "agentic"
    /\ plan.content = Chars("xyzzy")
    /\ Found(PlannedDoc)
    /\ Empty(PlannedDoc.extracted_text)
    /\ plan.result = "extract_text"

\* C6: plan_next_step_rulebase returns the action of the first empty field
\* in the order extracted_text, summary, tts_path, image_path, complete
\* exactly when none is empty, and None for an id with no row.
C6_RuleOrder ==
    plan.planner = "rulebase" =>
        LET doc == PlannedDoc
            r == plan.result
        IN  IF ~Found(doc) THEN r = None
            ELSE /\ r \in ValidActions
                 /\ r = "extract_text" <=> Empty(doc.extracted_text)
                 /\ r = "summarize" <=>
                        ~Empty(doc.extracted_text) /\ Empty(doc.summary)
                 /\ r = "tts" <=>
                        /\ ~Empty(doc.extracted_text)
                        /\ ~Empty(doc.summary)
                        /\ Empty(doc.tts_path)
                 /\ r = "generate_image" <=>
                        /\ ~Empty(doc.extracted_text)
                        /\ ~Empty(doc.summary)
                        /\ ~Empty(doc.tts_path)
                        /\ Empty(doc.image_path)
                 /\ r = "complete" <=>
                        /\ ~Empty(doc.extracted_text)
                        /\ ~Empty(doc.summary)
                        /\ ~Empty(doc.tts_path)
                        /\ ~Empty(doc.image_path)

\* Scenario B: only extracted_text set gives summarize
C6_Witness ==
    /\ plan.planner = "rulebase"
    /\ Found(PlannedDoc)
    /\ PlannedDoc.extracted_text = "hello"
    /\ PlannedDoc.summary = None
    /\ PlannedDoc.tts_path = None
    /\ PlannedDoc.image_path = None
    /\ plan.result = "summarize"

\* C7: on an existing document, plan_next_step_agentic returns the first
\* action name, in list order, that the lower-cased and trimmed reply
\* contains; if it contains none, the action of the first heuristic that
\* matches; either way the result does not depend on the document.
C7_ParseOrder ==
    (plan.planner = "agentic" /\ Found(PlannedDoc)) =>
        LET raw == Normalized
            tokens == TokensIn(raw)
            heuristics == HeuristicsIn(raw)
        IN  /\ tokens # {} => plan.result = valid_actions[Least(tokens)]
            /\ (tokens = {} /\ heuristics # {}) =>
                plan.result = HeuristicAction[Least(heuristics)]

\* Scenario D: the sentence parses to summarize although the document
\* still has no extracted text
C7_Witness ==
    /\ plan.planner = "agentic"
    /\ plan.content =
          Chars("I think you should ") \o Chars("summarize")
              \o Chars(" this now")
    /\ Found(PlannedDoc)
    /\ Empty(PlannedDoc.extracted_text)
    /\ plan.result = "summarize"

---------------------------------------------------------------------------
(* Properties of the workflow, checked under Spec and FairSpec *)

Columns == {"extracted_text", "summary", "tts_path", "image_path"}

\* C1: once one of extracted_text, summary, tts_path, image_path of a
\* document is non-empty, it is non-empty in every later state.
C1_Monotonic ==
    [][\A id \in 1..Len(docs) : \A c \in Columns :
          ~Empty(docs[id][c]) => ~Empty(docs'[id][c])]_vars

\* C2: after every iteration of a run the status agrees with the fields:
\* complete implies all four are non-empty, and text_extracted /
\* summarized / tts_done / image_generated imply extracted_text / summary /
\* tts_path / image_path non-empty.
C2_StatusConsistent ==
    run.iters >= 1 =>
      \A id \in 1..Len(docs) :
        LET doc == docs[id]
        IN  /\ doc.status = "complete" =>
                \A c \in Columns : ~Empty(doc[c])
            /\ doc.status = "text_extracted" => ~Empty(doc.extracted_text)
            /\ doc.status = "summarized" => ~Empty(doc.summary)
            /\ doc.status = "tts_done" => ~Empty(doc.tts_path)
            /\ doc.status = "image_generated" => ~Empty(doc.image_path)

\* C3: the populated fields form a prefix of the order extracted_text,
\* summary, tts_path, image_path.
C3_PipelineOrder ==
    \A id \in 1..Len(docs) :
        LET doc == docs[id]
        IN  /\ ~Empty(doc.summary) => ~Empty(doc.extracted_text)
            /\ ~Empty(doc.tts_path) => ~Empty(doc.summary)
            /\ ~Empty(doc.image_path) => ~Empty(doc.tts_path)

\* C8: a run executes at most max_steps iterations, an iteration invokes
\* no capability but the one of the action planned, and every run ends.
C8_Termination ==
    /\ [](run.iters <= run.max_steps /\ run.step <= run.max_steps)
    /\ [](last.capability \in {"none", last.action})
    /\ (run.pc = "running") ~> (run.pc # "running")

\* a run that used its whole budget, a capability invoked in its last
\* iteration
C8_Witness ==
    /\ run.pc = "done"
    /\ run.max_steps >= 2
    /\ run.iters = run.max_steps
    /\ last.capability # "none"

\* C9: a capability that raises, extract_text included, is caught in its
\* iteration, which yields a failure event, and never ends the run.
C9_FailuresNonFatal ==
    last.raised =>
        /\ last.event = "failure"
        /\ ~last.aborted
        /\ run.pc # "aborted"

\* an iteration of the run has just been executed, and in it the external
\* call of summarize, tts or generate_image raised
ExternalCallRaised ==
    /\ run.pc = "running"
    /\ run'.iters = run.iters + 1
    /\ last'.action \in {"summarize", "tts", "generate_image"}
    /\ last'.external
    /\ last'.raised

\* C10: when the external call of summarize, tts or generate_image raises,
\* the table is after the iteration what it was before, the event is a
\* failure and not a success, and the rule-based plan is unchanged.
C10_FailureChangesNothing ==
    [][ExternalCallRaised =>
          /\ docs' = docs
          /\ last'.event = "failure"
          /\ plan_next_step_rulebase(docs', run.doc_id) =
                 plan_next_step_rulebase(docs, run.doc_id)]_vars

\* Scenario F: summarize raised, the run goes on and the rule-based plan
\* is summarize again
C10_Witness ==
    /\ run.pc = "running"
    /\ last.action = "summarize"
    /\ last.external
    /\ last.raised
    /\ last.event = "failure"
    /\ plan_next_step_rulebase(docs, run.doc_id) = "summarize"

---------------------------------------------------------------------------
(* Properties of single iterations, checked under Spec *)

\* this step is an iteration of the run
IterationExecuted == run.pc = "running" /\ run'.iters = run.iters + 1

\* the row the run is about
RunDoc == get_document(docs, run.doc_id)

\* the input an action needs is empty
MissingPrecondition(action, doc) ==
    \/ action = "summarize" /\ Empty(doc.extracted_text)
    \/ action \in {"tts", "generate_image"} /\ Empty(doc.summary)

\* C11: when summarize is dispatched with extracted_text empty, or tts or
\* generate_image with summary empty, no external call is made, the table
\* is after the iteration what it was before, and the event is not a
\* success.
C11_MissingPreconditionNoOp ==
    [][(/\ IterationExecuted
        /\ Found(RunDoc)
        /\ MissingPrecondition(last'.action, RunDoc)) =>
          /\ ~last'.external
          /\ docs' = docs
          /\ last'.event # "success"]_vars

\* all four fields of the row are populated
AllPopulated(doc) == \A c \in Columns : ~Empty(doc[c])

\* C12: the iteration that plans complete sets the status to complete,
\* yields one terminal event, invokes no capability, leaves the four fields
\* alone and is the last of its run; a run on a document whose four fields
\* are populated plans complete in its first iteration.
C12_CompleteIsTerminal ==
    [][/\ (IterationExecuted /\ last'.action = "complete") =>
             /\ docs'[run.doc_id].status = "complete"
             /\ \A c \in Columns : docs'[run.doc_id][c] = docs[run.doc_id][c]
             /\ last'.event = "terminal"
             /\ run'.events = run.events + 1
             /\ last'.capability = "none"
             /\ run'.pc = "done"
       /\ run.pc = "done" => run'.iters # run.iters + 1
       /\ (/\ IterationExecuted
           /\ run.iters = 0
           /\ Found(RunDoc)
           /\ AllPopulated(RunDoc)) =>
             /\ last'.action = "complete"
             /\ last'.capability = "none"]_vars

\* the field an action fills
OutputField(action) ==
    CASE action = "extract_text" -> "extracted_text"
      [] action = "summarize" -> "summary"
      [] action = "tts" -> "tts_path"
      [] action = "generate_image" -> "image_path"

\* C13: in every run, first or repeated, a capability is invoked only
\* while the field it fills is empty.
C13_NoDuplicatedWork ==
    [][(/\ IterationExecuted
        /\ Found(RunDoc)
        /\ last'.capability # "none") =>
          Empty(RunDoc[OutputField(last'.capability)])]_vars

\* this step is an iteration that plans extract_text for a row whose file
\* is not under data/uploads
MissingFileIteration ==
    /\ IterationExecuted
    /\ Found(RunDoc)
    /\ files[RunDoc.filename] = Absent
    /\ last'.action = "extract_text"

\* C15: an iteration that plans extract_text while the file is missing
\* yields one failure event, leaves the table alone, and the run goes on
\* with step one higher; a run that leaves its loop without a break has
\* executed exactly max_steps iterations, so a run of such iterations only
\* ends after max_steps of them, the status untouched.
C15_MissingFileStalls ==
    /\ [][MissingFileIteration =>
            /\ docs' = docs
            /\ last'.event = "failure"
            /\ run'.events = run.events + 1
            /\ ~last'.aborted
            /\ run'.pc = "running"
            /\ run'.step = run.step + 1]_vars
    /\ [](run.pc = "running" => run.iters = run.step)
    /\ [][(run.pc = "running" /\ run'.pc = "done"
              /\ run'.iters = run.iters) =>
            run.iters = run.max_steps]_vars

\* a run of two iterations on a row with no file, the last a failed
\* extract_text, every iteration with its event, nothing stored, ended by
\* the budget
C15_Witness ==
    /\ run.pc = "done"
    /\ run.max_steps = 2
    /\ run.iters = 2
    /\ run.events = 2
    /\ Found(RunDoc)
    /\ files[RunDoc.filename] = Absent
    /\ last.action = "extract_text"
    /\ last.event = "failure"
    /\ RunDoc.status = "uploaded"
    /\ \A c \in Columns : Empty(RunDoc[c])

\* C18: a run yields one event in every iteration it executes, so it has
\* yielded as many events as it has executed iterations, at most max_steps,
\* and none after the terminal one.
C18_OneEventPerIteration ==
    /\ run.events = run.iters
    /\ run.events <= run.max_steps
    /\ (last.event = "terminal" => run.pc = "done")

---------------------------------------------------------------------------
(* Plan determinism, checked under PlannerSpec *)

\* the four presence flags of a row
PresenceFlags(doc) ==
    <<Truthy(doc.extracted_text), Truthy(doc.summary), Truthy(doc.tts_path),
      Truthy(doc.image_path)>>

\* rows that differ in id, filename, status, version and in what the four
\* fields hold
VariantRows ==
    {[NewRow(i, f, t) EXCEPT !.status = st, !.summary = s, !.tts_path = a,
                             !.image_path = im, !.version = v] :
        i \in 1..2, f \in {"a.pdf", "b.png"},
        t \in {None, "", "hello", "other"}, st \in Statuses,
        s \in {None, "", "s1", "s2"}, a \in {None, "", AudioPath},
        im \in {None, "", ImagePath}, v \in 1..2}

\* a table that holds the row under its id
TableOf(row) ==
    IF row.id = 1 THEN <<row>> ELSE <<NewRow(1, "a.pdf", None), row>>

\* C19: plan_next_step_rulebase returns the same action for any two
\* existing documents with the same four presence flags, whatever their
\* id, filename, status, version and field contents.
C19_PlanDeterminism ==
    (plan.planner = "rulebase" /\ Found(PlannedDoc)) =>
        \A row \in VariantRows :
            PresenceFlags(row) = PresenceFlags(PlannedDoc) =>
                plan_next_step_rulebase(TableOf(row), row.id) = plan.result

\* a row with text and summary plans tts, as does the row with id 2,
\* another filename, status complete, version 2 and other contents
C19_Witness ==
    /\ plan.planner = "rulebase"
    /\ Found(PlannedDoc)
    /\ PresenceFlags(PlannedDoc) = <<TRUE, TRUE, FALSE, FALSE>>
    /\ plan.result = "tts"
    /\ plan_next_step_rulebase(
           TableOf([NewRow(2, "b.png", "other") EXCEPT
                       !.status = "complete", !.summary = "s2",
                       !.tts_path = "", !.version = 2]), 2) = "tts"

---------------------------------------------------------------------------
(* The workflow re-invoked on one document, with no resource error *)

\* one existing row in any state of its four fields; its file is under
\* data/uploads and readable
ResumeInit ==
    /\ docs \in {<<row>> : row \in Rows}
    /\ files = [f \in Filenames |-> "text"]
    /\ run = NoRun
    /\ last = NoIter
    /\ plan = NoPlan
    /\ store = NoStore
    /\ execs = NoExecs

\* the capability of the last iteration did not raise and, for summarize,
\* the provider's reply was not empty
Succeeded ==
    /\ ~last.raised
    /\ last.action = "summarize" => Truthy(RunDoc.summary)

\* run_agentic_workflow(1, max_steps) is called again, with a budget of at
\* least one step
ResumeRun == \E m \in 1..MaxBudget : RunWorkflow(1, m)

\* an iteration whose capability call succeeds
ResumeIteration ==
    \/ IterComplete
    \/ IterExtract /\ Succeeded'
    \/ IterSummarize /\ Succeeded'
    \/ IterTts /\ Succeeded'
    \/ IterImage /\ Succeeded'
    \/ LoopExit

ResumeNext == ResumeRun \/ ResumeIteration

\* the caller consumes every run to its end and starts another
ResumeSpec ==
    /\ ResumeInit
    /\ [][ResumeNext]_vars
    /\ WF_vars(ResumeIteration)
    /\ WF_vars(ResumeRun)

\* C14: re-invoked without bound and with no resource error, the workflow
\* eventually brings the document to all four fields populated and status
\* complete.
C14_EventualCompletion ==
    <>(AllPopulated(docs[1]) /\ docs[1].status = "complete")

---------------------------------------------------------------------------
(* A document id with no record, checked under Spec *)

\* C16: for an id with no row both planners return None, whatever the
\* oracle would answer, and the run ends in its first iteration with no
\* capability invoked, no row changed and no audit row written.
C16_NotFound ==
    /\ [](\A id \in 1..(MaxDocs + 1) :
            ~Found(get_document(docs, id)) =>
               /\ plan_next_step_rulebase(docs, id) = None
               /\ \A p \in OracleParses : AgenticDecision(docs, id, p) = None)
    /\ [][(IterationExecuted /\ ~Found(RunDoc)) =>
            /\ run.iters = 0
            /\ run'.pc = "done"
            /\ last'.action = None
            /\ last'.capability = "none"
            /\ ~last'.external
            /\ last'.audit = <<>>
            /\ docs' = docs]_vars

\* a run on the id after the only row, ended by its first iteration
C16_Witness ==
    /\ Len(docs) = 1
    /\ run.pc = "done"
    /\ run.doc_id = 2
    /\ run.max_steps = 2
    /\ run.iters = 1
    /\ last.action = None
    /\ last.audit = <<>>

---------------------------------------------------------------------------
(* The store called directly *)

StoreDocIds == 1..(MaxDocs + 1)
StoreTexts == {"hello"}
StoreSummaries == {"s1"}
StoreStatuses == {"summarized", "complete"}

\* an empty documents table and an empty audit table
StoreInit ==
    /\ docs = <<>>
    /\ files = [f \in Filenames |-> Absent]
    /\ run = NoRun
    /\ last = NoIter
    /\ plan = NoPlan
    /\ store = [op |-> "init", document_id |-> 0, success |-> FALSE,
                audit |-> <<>>]
    /\ execs = NoExecs

\* the store as the next call finds it
StoreNow == [documents |-> docs, audit |-> store.audit]

\* a store method was called for document_id and left the store S
Called(op, document_id, S) ==
    /\ docs' = S.documents
    /\ store' = [op |-> op, document_id |-> document_id,
                 success |-> IF op = "insert_document" THEN TRUE
                             ELSE S.result,
                 audit |-> S.audit]
    /\ UNCHANGED <<files, run, last, plan, execs>>

CallInsertDocument(filename, extracted_text) ==
    /\ Len(docs) < MaxDocs
    /\ Len(store.audit) < MaxAudit
    /\ LET S == Database_insert_document(StoreNow, filename, extracted_text)
       IN  Called("insert_document", S.result, S)

CallUpdateExtractedText(document_id, extracted_text) ==
    /\ Len(store.audit) < MaxAudit
    /\ Called("update_extracted_text", document_id,
              Database_update_extracted_text(StoreNow, document_id,
                                             extracted_text))

CallUpdateSummary(document_id, summary) ==
    /\ Len(store.audit) < MaxAudit
    /\ Called("update_summary", document_id,
              Database_update_summary(StoreNow, document_id, summary))

CallUpdateTtsPath(doc_id, tts_path) ==
    /\ Len(store.audit) < MaxAudit
    /\ Called("update_tts_path", doc_id,
              Database_update_tts_path(StoreNow, doc_id, tts_path))

CallUpdateImagePath(doc_id, image_path) ==
    /\ Len(store.audit) < MaxAudit
    /\ Called("update_image_path", doc_id,
              Database_update_image_path(StoreNow, doc_id, image_path))

CallUpdateStatus(doc_id, status) ==
    /\ Len(store.audit) < MaxAudit
    /\ Called("update_status", doc_id,
              Database_update_status(StoreNow, doc_id, status))

StoreNext ==
    \/ \E f \in Filenames, t \in {None} \union StoreTexts :
          CallInsertDocument(f, t)
    \/ \E d \in StoreDocIds, t \in StoreTexts : CallUpdateExtractedText(d, t)
    \/ \E d \in StoreDocIds, s \in StoreSummaries : CallUpdateSummary(d, s)
    \/ \E d \in StoreDocIds : CallUpdateTtsPath(d, AudioPath)
    \/ \E d \in StoreDocIds : CallUpdateImagePath(d, ImagePath)
    \/ \E d \in StoreDocIds, st \in StoreStatuses : CallUpdateStatus(d, st)

StoreSpec == StoreInit /\ [][StoreNext]_vars

\* the audit rows of before are the first rows of after
AuditKept ==
    /\ Len(store'.audit) >= Len(store.audit)
    /\ SubSeq(store'.audit, 1, Len(store.audit)) = store.audit

\* the call appended one audit row, for the id it was given
OneAuditRow ==
    /\ Len(store'.audit) = Len(store.audit) + 1
    /\ store'.audit[Len(store'.audit)].document_id = store'.document_id

\* C17 as stated: every call of insert_document and of the five update
\* operations appends exactly one audit row for the given id, and no call
\* changes or removes an earlier row.
C17_EveryCallAudited == [][AuditKept /\ OneAuditRow]_vars

\* C17, amended: insert_document, and an update for an id that has a row,
\* append exactly one audit row for that id ("insert" or "update", actor
\* "system"); an update for an id with no row returns False, changes no row
\* and appends nothing; no call changes or removes an earlier audit row.
C17_AuditTrail ==
    [][/\ AuditKept
       /\ store'.success <=>
             (store'.op = "insert_document"
                 \/ store'.document_id \in 1..Len(docs))
       /\ IF store'.success
          THEN /\ OneAuditRow
               /\ store'.audit[Len(store'.audit)].actor = "system"
               /\ store'.audit[Len(store'.audit)].action =
                     IF store'.op = "insert_document" THEN "insert"
                     ELSE "update"
          ELSE /\ store'.audit = store.audit
               /\ docs' = docs]_vars

\* the row is inserted and its status is updated: two audit rows for id 1;
\* then an update for id 2, which has no row, leaves them as they are
C17_Witness ==
    /\ store.op = "update_summary"
    /\ store.document_id = 2
    /\ ~store.success
    /\ Len(docs) = 1
    /\ store.audit =
          <<[document_id |-> 1, action |-> "insert", actor |-> "system",
             note |-> <<"Document ", "a.pdf", " uploaded">>],
            [document_id |-> 1, action |-> "update", actor |-> "system",
             note |-> <<"Status updated to: ", "complete">>]>>

---------------------------------------------------------------------------
(* Two executors on two documents *)

\* the two calls of run_agentic_workflow, the first for document 1, the
\* second for document 2
Execs == 1..2

Other(e) == 3 - e

\* the table the two runs start from: an uploaded document with its text
\* and an inserted one without
ConcDocs ==
    <<[NewRow(1, "a.pdf", "hello") EXCEPT !.status = "text_extracted"],
      NewRow(2, "a.pdf", None)>>

\* an executor between two store calls: about to plan ("plan"), about to
\* run the branch of the action it planned ("act"), or out of its loop;
\* seen is the row its planner read, outcome what the external call of its
\* last branch answered; solo_action and solo are the action and the row
\* it would have with no other executor writing
NewExec(doc_id, max_steps) ==
    [pc |-> "plan", doc_id |-> doc_id, step |-> 0, max_steps |-> max_steps,
     action |-> "none", seen |-> NoDoc, outcome |-> "none",
     solo_action |-> "none", solo |-> ConcDocs[doc_id]]

\* the table as executor e would have it with the other document never
\* touched
SoloDocs(e) == [ConcDocs EXCEPT ![execs[e].doc_id] = execs[e].solo]

\* what the external call of an action can answer
Outcomes(D, doc_id, action) ==
    CASE action = "summarize" ->
            SummarizeOutcomes(get_document(D, doc_id).extracted_text)
      [] action \in {"tts", "generate_image"} -> MediaOutcomes
      [] OTHER -> {"ok"}

\* the if / elif chain on next_action
BranchOf(D, F, doc_id, action, o) ==
    CASE action = "complete" -> CompleteBranch(D, doc_id)
      [] action = "extract_text" -> ExtractBranch(D, F, doc_id)
      [] action = "summarize" -> SummarizeBranch(D, doc_id, o)
      [] action = "tts" -> TtsBranch(D, doc_id, o)
      [] action = "generate_image" -> ImageBranch(D, doc_id, o)

ConcInit ==
    /\ docs = ConcDocs
    /\ files = [f \in Filenames |-> "text"]
    /\ run = NoRun
    /\ last = NoIter
    /\ plan = NoPlan
    /\ store = NoStore
    /\ execs \in {<<NewExec(1, m1), NewExec(2, m2)>> :
                     m1 \in 1..MaxBudget, m2 \in 1..MaxBudget}

\* executor e asks the planner; break if both planners return None
ExecPlan(e) ==
    /\ execs[e].pc = "plan"
    /\ execs[e].step < execs[e].max_steps
    /\ \E p \in OracleParses :
          LET next_action == NextAction(docs, execs[e].doc_id, p)
          IN  execs' = [execs EXCEPT
                  ![e].action = next_action,
                  ![e].seen = get_document(docs, execs[e].doc_id),
                  ![e].solo_action =
                      NextAction(SoloDocs(e), execs[e].doc_id, p),
                  ![e].pc = IF next_action = None THEN "done" ELSE "act"]
    /\ UNCHANGED <<docs, files, run, last, plan, store>>

\* executor e runs the branch of the action it planned, on the table as
\* it is now
ExecAct(e) ==
    /\ execs[e].pc = "act"
    /\ \E o \in Outcomes(docs, execs[e].doc_id, execs[e].action) :
          LET d == execs[e].doc_id
              it == BranchOf(docs, files, d, execs[e].action, o)
              alone == BranchOf(SoloDocs(e), files, d,
                                execs[e].solo_action, o)
          IN  /\ docs' = it.docs
              /\ execs' = [execs EXCEPT
                     ![e].outcome = o,
                     ![e].solo = alone.docs[d],
                     ![e].pc = IF execs[e].action = "complete" THEN "done"
                               ELSE IF it.aborted THEN "aborted"
                               ELSE "plan",
                     ![e].step = IF execs[e].action = "complete"
                                    \/ it.aborted
                                 THEN @ ELSE @ + 1]
    /\ UNCHANGED <<files, run, last, plan, store>>

\* while step < max_steps is false for executor e
ExecExit(e) ==
    /\ execs[e].pc = "plan"
    /\ execs[e].step >= execs[e].max_steps
    /\ execs' = [execs EXCEPT ![e].pc = "done"]
    /\ UNCHANGED <<docs, files, run, last, plan, store>>

ConcNext ==
    \E e \in Execs :
        \/ ExecPlan(e)
        \/ ExecAct(e)
        \/ ExecExit(e)

ConcSpec == ConcInit /\ [][ConcNext]_vars

\* C20: under every interleaving of the two runs, a step of one executor
\* leaves the other document's row as it is, plans what it would plan with
\* the other document never touched, and each document's row is at every
\* moment the row the same oracle answers and capability results give it
\* when its run is alone.
C20_Independence ==
    /\ [][\A e \in Execs :
            execs'[e] # execs[e] =>
                docs'[execs[Other(e)].doc_id] = docs[execs[Other(e)].doc_id]
         ]_vars
    /\ [](\A e \in Execs :
            /\ execs[e].action = execs[e].solo_action
            /\ docs[execs[e].doc_id] = execs[e].solo)

\* both runs are between their plan and their second branch, each having
\* written its own document in its first
C20_Witness ==
    /\ \A e \in Execs : execs[e].pc = "act" /\ execs[e].step = 1
    /\ docs[1].summary = "s1"
    /\ docs[1].status = "summarized"
    /\ docs[2].extracted_text = "hello"
    /\ docs[2].status = "text_extracted"

---------------------------------------------------------------------------
(* Two executors on one document *)

\* two calls of run_agentic_workflow for document 1, the second with a
\* budget of one step
RaceInit ==
    /\ docs = ConcDocs
    /\ files = [f \in Filenames |-> "text"]
    /\ run = NoRun
    /\ last = NoIter
    /\ plan = NoPlan
    /\ store = NoStore
    /\ execs \in {<<NewExec(1, m), NewExec(1, 1)>> : m \in 1..MaxBudget}

RaceSpec == RaceInit /\ [][ConcNext]_vars

\* this step is executor e running the summarize branch, the provider
\* answering
Summarized(e) ==
    /\ execs[e].pc = "act"
    /\ execs[e].action = "summarize"
    /\ execs'[e].step = execs[e].step + 1
    /\ execs'[e].outcome # Raise

\* C21: neither executor ever waits for the other: each can plan while it
\* has budget and can run the branch it planned, whatever the other does;
\* a summarize that succeeds stores its own reply over whatever the row
\* holds by then; the version column stays 1 and no plan depends on it.
C21_SameDocumentRace ==
    /\ [](\A e \in Execs :
            /\ (execs[e].pc = "plan"
                  /\ execs[e].step < execs[e].max_steps) =>
                  ENABLED ExecPlan(e)
            /\ execs[e].pc = "act" => ENABLED ExecAct(e))
    /\ [][\A e \in Execs :
            Summarized(e) => docs'[1].summary = execs'[e].outcome]_vars
    /\ [](/\ docs[1].version = 1
          /\ \A p \in OracleParses :
                NextAction([docs EXCEPT ![1].version = 2], 1, p) =
                    NextAction(docs, 1, p))

\* both planners read the row with its summary still empty and planned
\* summarize; the first executor stored "s1", the second then stored "",
\* which is what the row holds
C21_Witness ==
    /\ \A e \in Execs :
          /\ execs[e].action = "summarize"
          /\ execs[e].seen = ConcDocs[1]
          /\ execs[e].step = 1
    /\ execs[1].outcome = "s1"
    /\ execs[2].outcome = ""
    /\ execs[1].solo.summary = "s1"
    /\ docs[1].summary = ""
    /\ docs[1].version = 1

---------------------------------------------------------------------------
(* Order of the statuses: checked under Spec *)

\* position of a status in the order in which update_status lists them
StatusRank(status) ==
    CASE status = "uploaded" -> 0
      [] status = "text_extracted" -> 1
      [] status = "summarized" -> 2
      [] status = "tts_done" -> 3
      [] status = "image_generated" -> 4
      [] status = "complete" -> 5

\* C23: no step of the workflow, in one run or a later one, replaces the
\* status of a document by one that comes earlier in the order
\* uploaded < text_extracted < summarized < tts_done < image_generated <
\* complete, whatever the oracle answers.
C23_StatusNeverRegresses ==
    [][\A d \in 1..Len(docs) :
          StatusRank(docs'[d].status) >= StatusRank(docs[d].status)]_vars

---------------------------------------------------------------------------
(* What the workflow leaves alone: checked under Spec *)

\* the columns of CREATE TABLE documents
AllColumns ==
    {"id", "filename", "uploaded_at", "status", "extracted_text", "summary",
     "metadata_json", "tts_path", "image_path", "version"}

\* the columns no UPDATE statement names
FrameColumns == {"id", "filename", "uploaded_at", "metadata_json", "version"}

\* the column an audit entry of an update names
ColumnOf(note) ==
    CASE note[1] = "Extracted text updated" -> "extracted_text"
      [] note[1] = "Summary updated" -> "summary"
      [] note[1] = "TTS path updated: " -> "tts_path"
      [] note[1] = "Image path updated: " -> "image_path"
      [] note[1] = "Status updated to: " -> "status"

\* an update operation of this step named this column of this document
UpdateNamed(audit, d, c) ==
    \E i \in 1..Len(audit) :
        /\ audit[i].document_id = d
        /\ audit[i].action = "update"
        /\ ColumnOf(audit[i].note) = c

---------------------------------------------------------------------------
(* One run under the rule order, every capability succeeding *)

\* the budgets of the observed run: none, one more than the fields to
\* fill, and the default
RuleBudgets == (0..(MaxBudget + 3)) \union {DefaultMaxSteps}

\* document 1 as insert_document creates it, its file readable
BudgetInit ==
    /\ docs \in {<<NewRow(1, f, t)>> :
                    f \in Filenames, t \in {None} \union ExtractedTexts}
    /\ files = [f \in Filenames |-> "text"]
    /\ run = NoRun
    /\ last = NoIter
    /\ plan = NoPlan
    /\ store = NoStore
    /\ execs = NoExecs

\* an iteration of an earlier run on document 1, the oracle and the
\* providers answering anything
EarlierIteration ==
    /\ run.pc = "idle"
    /\ \E p \in OracleParses :
          LET action == NextAction(docs, 1, p)
          IN  \E o \in Outcomes(docs, 1, action) :
                 docs' = BranchOf(docs, files, 1, action, o).docs
    /\ UNCHANGED <<files, run, last, plan, store, execs>>

\* run_agentic_workflow(1, max_steps) is called; start keeps the row as
\* the run finds it
BudgetRun(max_steps) ==
    /\ run.pc = "idle"
    /\ run' = [pc |-> "running", doc_id |-> 1, step |-> 0,
               max_steps |-> max_steps, iters |-> 0, events |-> 0,
               start |-> docs[1]]
    /\ last' = NoIter
    /\ UNCHANGED <<docs, files, plan, store, execs>>

\* the iteration just executed planned what the rule order plans, its
\* capability did not raise and the field it fills is not empty
RuleOrderSuccess ==
    /\ last'.action = plan_next_step_rulebase(docs, run.doc_id)
    /\ ~last'.raised
    /\ last'.action # "complete" =>
          Truthy(docs'[run.doc_id][OutputField(last'.action)])

BudgetIteration ==
    \/ IterComplete /\ RuleOrderSuccess
    \/ IterExtract /\ RuleOrderSuccess
    \/ IterSummarize /\ RuleOrderSuccess
    \/ IterTts /\ RuleOrderSuccess
    \/ IterImage /\ RuleOrderSuccess
    \/ LoopExit

BudgetNext ==
    \/ EarlierIteration
    \/ \E m \in RuleBudgets : BudgetRun(m)
    \/ BudgetIteration

BudgetSpec == BudgetInit /\ [][BudgetNext]_vars

\* the observed run has returned
RunEnded == run.pc = "done"

\* k: the number of fields that were empty when the run started
EmptyFields(doc) == Cardinality({c \in Columns : Empty(doc[c])})

\* the status written by the iteration that fills the last empty field of
\* the row in the rule order
LastFillStatus(doc) ==
    CASE Empty(doc.image_path) -> "image_generated"
      [] Empty(doc.tts_path) -> "tts_done"
      [] Empty(doc.summary) -> "summarized"
      [] Empty(doc.extracted_text) -> "text_extracted"
      [] OTHER -> doc.status

\* C22 as stated: the run ends with status complete exactly when
\* max_steps >= k + 1; with max_steps = k it ends with the four fields
\* populated and status image_generated; with the default budget a row
\* with four empty fields is complete in the fifth iteration.
C22_StepBudget ==
    RunEnded =>
        LET k == EmptyFields(run.start)
        IN  /\ docs[1].status = "complete" <=> run.max_steps >= k + 1
            /\ run.max_steps = k =>
                  /\ AllPopulated(docs[1])
                  /\ docs[1].status = "image_generated"
            /\ (run.max_steps = DefaultMaxSteps /\ k = 4) =>
                  /\ run.iters = 5
                  /\ docs[1].status = "complete"

\* C22, amended: a run with max_steps >= 1 ends with status complete
\* exactly when max_steps >= k + 1, and then in iteration k + 1; a run
\* with max_steps = 0 leaves the row as it was; with max_steps = k >= 1 the
\* four fields are populated and the status is the one of the last field
\* filled, image_generated when image_path was empty; with the default
\* budget a row with four empty fields is complete in the fifth iteration.
C22_StepBudgetAmended ==
    RunEnded =>
        LET k == EmptyFields(run.start)
        IN  /\ run.max_steps >= 1 =>
                  (docs[1].status = "complete" <=> run.max_steps >= k + 1)
            /\ run.max_steps >= k + 1 => run.iters = k + 1
            /\ run.max_steps = 0 => docs[1] = run.start
            /\ (run.max_steps = k /\ k >= 1) =>
                  /\ AllPopulated(docs[1])
                  /\ run.iters = k
                  /\ docs[1].status = LastFillStatus(run.start)
            /\ (run.max_steps = DefaultMaxSteps /\ k = 4) =>
                  /\ run.iters = 5
                  /\ docs[1].status = "complete"

\* a run with a budget of three steps on the row an upload leaves (text
\* extracted, three fields empty) has ended: the four fields are
\* populated and the status is image_generated
C22_Witness ==
    /\ RunEnded
    /\ run.start.status = "text_extracted"
    /\ EmptyFields(run.start) = 3
    /\ Truthy(run.start.extracted_text)
    /\ run.max_steps = 3
    /\ run.iters = 3
    /\ AllPopulated(docs[1])
    /\ docs[1].status = "image_generated"

====
